---- MODULE Spec2Model ----
(***************************************************************************)
(* Model of the mask-processing functions of                               *)
(* mask_processing_functions.py and of the driver                          *)
(* 01_mask_processing_pipeline.py.                                         *)
(*                                                                         *)
(* A mask is the raveled voxel array: a function from 1..n to region ids.  *)
(* Every function of the source is an operator that returns a record with  *)
(*   mask   : the content of the caller's array object after the call,     *)
(*   work   : the function's local working array when it exits,            *)
(*   raised : "none" or the name of the exception that ended the call,     *)
(*   ret    : what the call returned ([returned |-> FALSE] if it raised).  *)
(* An action applies one function to the current state.                    *)
(***************************************************************************)
EXTENDS Integers, Sequences, FiniteSets, TLC

VARIABLES
    tree,    \* atlas.structures.tree: parent link of every region
    mask0,   \* the content of the array when the stage under study started
    mask,    \* the content of the caller's array object now
    call,    \* the arguments of the calls made so far
    work,    \* the local working array of the last call when it exited
    ret,     \* the value returned by the last call
    raised,  \* "none", or the exception raised by the last call
    pc       \* position of the driver

vars == <<tree, mask0, mask, call, work, ret, raised, pc>>

(***************************** bounds **************************************)
NVox == 2          \* voxels of a mask given to the Region Merger functions
MaxRegions == 2    \* longest region_acronyms list
MaxLevel == 2      \* largest level argument

(***************************** the atlas ***********************************)
\* The regions of the atlas in the order the tree lists them.
RegionOrder == <<"root", "A", "B", "fiber tracts">>

Acronyms == {RegionOrder[i] : i \in DOMAIN RegionOrder}

\* An acronym that has no entry in atlas.structures.
UnknownAcronym == "XX"

\* atlas.structures: acronym -> {id, name, acronym}.
structures ==
    [a \in Acronyms |->
        [id |-> CASE a = "root" -> 1
                  [] a = "A" -> 2
                  [] a = "B" -> 3
                  [] a = "fiber tracts" -> 5,
         name |-> "name of " \o a,
         acronym |-> a]]

AtlasIds == {structures[a].id : a \in Acronyms}

Index(a) == CHOOSE i \in DOMAIN RegionOrder : RegionOrder[i] = a

\* The rooted trees over the regions: "root" has no parent and every other
\* region hangs below a region listed before it.
Trees ==
    {t \in [Acronyms -> Acronyms \cup {"none"}] :
        /\ t["root"] = "none"
        /\ \A a \in Acronyms \ {"root"} :
              t[a] \in Acronyms /\ Index(t[a]) < Index(a)}

\* tree.children(node): the child nodes, in tree order.
children(t, node) == SelectSeq(RegionOrder, LAMBDA c : t[c] = node)

\* child.tag is "<acronym> (<id>)"; tag.split(" ")[0] is the first word of it.
split_first(a) == IF a = "fiber tracts" THEN "fiber" ELSE a

RECURSIVE descendants_of_each(_, _)
\* The regions of the subtrees rooted at the given nodes, parents first.
descendants_of_each(t, nodes) ==
    IF nodes = <<>> THEN <<>>
    ELSE <<Head(nodes)>>
             \o descendants_of_each(t, children(t, Head(nodes)))
             \o descendants_of_each(t, Tail(nodes))

\* atlas.get_structure_descendants(acronym): every region below it.
get_structure_descendants(t, a) == descendants_of_each(t, children(t, a))

RECURSIVE recurse_children(_, _, _, _)
\* for child in children: append the acronym read from the tag at the
\* selected depth, recurse into the child above it.
recurse_children(t, kids, current_depth, selected_depth) ==
    IF kids = <<>> THEN <<>>
    ELSE (IF current_depth = selected_depth
          THEN <<split_first(Head(kids))>>
          ELSE recurse_children(t, children(t, Head(kids)),
                                current_depth + 1, selected_depth))
             \o recurse_children(t, Tail(kids), current_depth, selected_depth)

recurse(t, node, current_depth, selected_depth) ==
    recurse_children(t, children(t, node), current_depth, selected_depth)

get_descendants_of_depth(t, parent_node, selected_depth) ==
    recurse(t, parent_node, 1, selected_depth)

(***************************** array helpers *******************************)
\* m[m == old] = new
assign_where(m, old, new) ==
    [v \in DOMAIN m |-> IF m[v] = old THEN new ELSE m[v]]

Range(s) == {s[i] : i \in DOMAIN s}

RECURSIVE sorted(_)
\* The members of a set of integers in ascending order.
sorted(S) ==
    IF S = {} THEN <<>>
    ELSE LET x == CHOOSE x \in S : \A y \in S : x <= y
         IN  <<x>> \o sorted(S \ {x})

\* np.unique(m): the distinct values of the array, ascending.
unique(m) == sorted({m[v] : v \in DOMAIN m})

NoReturn == [returned |-> FALSE]


\* What a call that worked on a private copy leaves behind: the caller's array
\* as it was, and the copy as the returned value unless the call raised.
on_copy(m, r) ==
    [mask |-> m, work |-> r.m, raised |-> r.raised,
     ret |-> IF r.raised = "none"
             THEN [returned |-> TRUE, mask |-> r.m]
             ELSE NoReturn]

(***************************** Region Merger *******************************)
RECURSIVE merge_areas(_, _, _)
\* for area_code in areas: m[m == atlas.structures[area_code]["id"]] = target
merge_areas(m, areas, target) ==
    IF areas = <<>> THEN m
    ELSE merge_areas(assign_where(m, structures[Head(areas)].id, target),
                     Tail(areas), target)

RECURSIVE flatten_regions_loop(_, _, _)
\* The loop of flatten_regions over region_acronyms; atlas.structures[...]
\* raises KeyError for an acronym that has no entry.
flatten_regions_loop(sm, t, region_acronyms) ==
    IF region_acronyms = <<>> THEN [raised |-> "none", m |-> sm]
    ELSE LET region_name == Head(region_acronyms)
         IN  IF region_name \notin DOMAIN structures
             THEN [raised |-> "KeyError", m |-> sm]
             ELSE flatten_regions_loop(
                      merge_areas(sm, get_structure_descendants(t, region_name),
                                  structures[region_name].id),
                      t, Tail(region_acronyms))

\* Mutant: flatten_regions without mask.copy(), rewriting the caller's array.
flatten_regions_in_place(m, t, region_acronyms) ==
    LET r == flatten_regions_loop(m, t, region_acronyms)
    IN  [mask |-> r.m, work |-> r.m, raised |-> r.raised,
         ret |-> IF r.raised = "none"
                 THEN [returned |-> TRUE, mask |-> r.m]
                 ELSE NoReturn]

\* Mutant: flatten_regions returning from inside the loop, after the first
\* region of the list.
flatten_regions_first_only(m, t, region_acronyms) ==
    on_copy(m, flatten_regions_loop(m, t,
                IF region_acronyms = <<>> THEN <<>>
                ELSE <<Head(region_acronyms)>>))

RECURSIVE children_only_loop(_, _, _)
children_only_loop(sm, t, region_acronyms) ==
    IF region_acronyms = <<>> THEN [raised |-> "none", m |-> sm]
    ELSE LET region_name == Head(region_acronyms)
         IN  IF region_name \notin DOMAIN structures
             THEN [raised |-> "KeyError", m |-> sm]
             ELSE children_only_loop(
                      merge_areas(sm, children(t, region_name),
                                  structures[region_name].id),
                      t, Tail(region_acronyms))

\* Mutant: flatten_regions merging the children of a region only, not every
\* descendant.
flatten_regions_children_only(m, t, region_acronyms) ==
    on_copy(m, children_only_loop(m, t, region_acronyms))

flatten_regions(m, t, region_acronyms) ==
    on_copy(m, flatten_regions_loop(m, t, region_acronyms))

RECURSIVE keep_loop(_, _, _)
\* The loop over areas_to_keep: the acronym read from the tag is looked up
\* in atlas.structures, then its descendants are merged into it.
keep_loop(sm, t, areas_to_keep) ==
    IF areas_to_keep = <<>> THEN [raised |-> "none", m |-> sm]
    ELSE LET kept_area_code == Head(areas_to_keep)
         IN  IF kept_area_code \notin DOMAIN structures
             THEN [raised |-> "KeyError", m |-> sm]
             ELSE keep_loop(
                      merge_areas(sm, get_structure_descendants(t, kept_area_code),
                                  structures[kept_area_code].id),
                      t, Tail(areas_to_keep))

RECURSIVE flatten_level_loop(_, _, _, _)
flatten_level_loop(sm, t, region_acronyms, level) ==
    IF region_acronyms = <<>> THEN [raised |-> "none", m |-> sm]
    ELSE LET region_name == Head(region_acronyms)
         IN  IF region_name \notin DOMAIN structures
             THEN [raised |-> "KeyError", m |-> sm]
             ELSE LET r == keep_loop(sm, t,
                               get_descendants_of_depth(t, region_name, level))
                  IN  IF r.raised # "none" THEN r
                      ELSE flatten_level_loop(r.m, t, Tail(region_acronyms), level)

flatten_descendants_of_level(m, t, region_acronyms, level) ==
    IF level < 1
    THEN [mask |-> m, work |-> m, raised |-> "ValueError", ret |-> NoReturn]
    ELSE on_copy(m, flatten_level_loop(m, t, region_acronyms, level))

RECURSIVE exclude_regions_loop(_, _)
exclude_regions_loop(mm, region_acronyms) ==
    IF region_acronyms = <<>> THEN [raised |-> "none", m |-> mm]
    ELSE LET region_name == Head(region_acronyms)
         IN  IF region_name \notin DOMAIN structures
             THEN [raised |-> "KeyError", m |-> mm]
             ELSE exclude_regions_loop(
                      assign_where(mm, structures[region_name].id, 0),
                      Tail(region_acronyms))

exclude_regions(m, region_acronyms) ==
    on_copy(m, exclude_regions_loop(m, region_acronyms))

(***************************** Fragment Filter *****************************)
GridCols == 3      \* voxels in a row of the grid the Fragment Filter works on

\* The Fragment Filter is given a grid of two rows, raveled row by row.
GridVoxels == 1..(2 * GridCols)

row(v) == (v - 1) \div GridCols

col(v) == (v - 1) % GridCols

\* generate_binary_structure(rank, connectivity): two voxels are adjacent when
\* their squared distance is at most the connectivity.
adjacent(v, w, structure) ==
    /\ v # w
    /\ (row(v) - row(w)) * (row(v) - row(w))
         + (col(v) - col(w)) * (col(v) - col(w)) <= structure

RECURSIVE grow(_, _, _)
grow(region_mask, comp, structure) ==
    LET next == comp \cup {w \in region_mask :
                              \E v \in comp : adjacent(v, w, structure)}
    IN  IF next = comp THEN comp ELSE grow(region_mask, next, structure)

\* The connected component of voxel v in the set of voxels region_mask.
component(region_mask, v, structure) == grow(region_mask, {v}, structure)

first_voxel(comp) == CHOOSE v \in comp : \A w \in comp : v <= w

\* scipy.ndimage.label(region_mask, structure): 0 outside the region, and
\* inside it the number of the component, counted in raster order.
label(region_mask, structure) ==
    LET firsts == {first_voxel(component(region_mask, u, structure)) :
                      u \in region_mask}
    IN  [v \in GridVoxels |->
            IF v \notin region_mask THEN 0
            ELSE Cardinality({f \in firsts :
                     f <= first_voxel(component(region_mask, v, structure))})]

\* np.bincount(labeled.ravel()): the number of voxels of every label 0..max.
bincount(labeled) ==
    LET top == CHOOSE x \in Range(labeled) : \A y \in Range(labeled) : y <= x
    IN  [i \in 1..(top + 1) |->
            Cardinality({v \in DOMAIN labeled : labeled[v] = i - 1})]

\* Mutant: np.bincount(labeled.ravel()) without the [1:] that drops label 0.
component_sizes_with_background(labeled) == bincount(labeled)

\* np.bincount(labeled.ravel())[1:]
component_sizes(labeled) == Tail(bincount(labeled))

\* id_to_name.get(id, f"Unknown ID {id}")
region_name_of(id) ==
    IF id \in AtlasIds
    THEN structures[CHOOSE a \in Acronyms : structures[a].id = id].name
    ELSE "Unknown ID " \o ToString(id)

\* Mutant: size <= min_size.
too_small_or_equal(size, min_size) == size <= min_size

\* if size < min_size
too_small(size, min_size) == size < min_size

RECURSIVE component_loop(_, _, _, _, _, _)
\* for i, size in enumerate(component_sizes, start=1)
component_loop(st, id, labeled, sizes, i, min_size) ==
    IF i > Len(sizes) THEN st
    ELSE LET removed == too_small(sizes[i], min_size)
             rec == [region_id |-> id,
                     region_name |-> region_name_of(id),
                     fragment_index |-> i,
                     fragment_size_voxels |-> sizes[i],
                     removed |-> removed]
         IN  component_loop(
                 [cleaned_mask |->
                      IF removed
                      THEN [v \in DOMAIN st.cleaned_mask |->
                               IF labeled[v] = i THEN 0 ELSE st.cleaned_mask[v]]
                      ELSE st.cleaned_mask,
                  fragment_info |-> Append(st.fragment_info, rec)],
                 id, labeled, sizes, i + 1, min_size)

RECURSIVE region_loop(_, _, _, _, _)
\* for id in region_ids
region_loop(st, m, region_ids, min_size, structure) ==
    IF region_ids = <<>> THEN st
    ELSE LET id == Head(region_ids)
             region_mask == {v \in DOMAIN m : m[v] = id}
             labeled == label(region_mask, structure)
         IN  region_loop(
                 component_loop(st, id, labeled, component_sizes(labeled),
                                1, min_size),
                 m, Tail(region_ids), min_size, structure)

remove_small_fragments(m, min_size, structure) ==
    LET region_ids == SelectSeq(unique(m), LAMBDA x : x # 0)
        st == region_loop([cleaned_mask |-> m, fragment_info |-> <<>>],
                          m, region_ids, min_size, structure)
    IN  [mask |-> m, work |-> st.cleaned_mask, raised |-> "none",
         ret |-> [returned |-> TRUE, mask |-> st.cleaned_mask,
                  fragment_info |-> st.fragment_info]]

(***************************** ID Remapper *********************************)
\* Mutant: all_ids >= max_value.
large_ids_inclusive(all_ids, max_value) ==
    SelectSeq(all_ids, LAMBDA x : x >= max_value)

\* all_ids[all_ids > max_value]
large_ids_of(all_ids, max_value) ==
    SelectSeq(all_ids, LAMBDA x : x > max_value)

\* set(all_ids[all_ids <= max_value])
used_ids_of(all_ids, max_value) ==
    {x \in Range(all_ids) : x <= max_value}

\* Mutant: range(1, max_value + 2).
available_ids_off_by_one(used_ids, max_value) ==
    sorted({i \in 1..(max_value + 1) : i \notin used_ids})

\* Mutant: the candidates are not filtered by used_ids.
available_ids_ignoring_used(used_ids, max_value) ==
    sorted(1..max_value)

\* [i for i in range(1, max_value + 1) if i not in used_ids]
available_ids_of(used_ids, max_value) ==
    sorted({i \in 1..max_value : i \notin used_ids})

\* The empty dict.
EmptyDict == [k \in {} |-> 0]

RECURSIVE remap_loop(_, _, _)
\* for old_id in large_ids; st holds the array and the two dicts.
remap_loop(st, large_ids, available_ids) ==
    IF large_ids = <<>> THEN st
    ELSE IF available_ids = <<>>
    THEN [st EXCEPT !.raised = "RuntimeError"]
    ELSE LET old_id == Head(large_ids)
             new_id == Head(available_ids)
         IN  remap_loop(
                 [raised |-> "none",
                  m |-> assign_where(st.m, old_id, new_id),
                  id_remap |-> (old_id :> new_id) @@ st.id_remap,
                  new_id_to_old_id |-> (new_id :> old_id) @@ st.new_id_to_old_id],
                 Tail(large_ids), Tail(available_ids))

\* remap_large_values rewrites the array it is given: there is no copy.
remap_large_values(m, max_value) ==
    LET all_ids == unique(m)
        st == remap_loop(
                  [raised |-> "none", m |-> m, id_remap |-> EmptyDict,
                   new_id_to_old_id |-> EmptyDict],
                  large_ids_of(all_ids, max_value),
                  available_ids_of(used_ids_of(all_ids, max_value), max_value))
    IN  [mask |-> st.m, work |-> st.m, raised |-> st.raised,
         ret |-> IF st.raised = "none"
                 THEN [returned |-> TRUE, mask |-> st.m,
                       id_remap |-> st.id_remap,
                       new_id_to_old_id |-> st.new_id_to_old_id]
                 ELSE NoReturn]

(***************************** Metadata Builder ****************************)
\* atlas_id_to_info: id -> {name, acronym}
atlas_id_to_info ==
    [id \in AtlasIds |->
        LET a == CHOOSE a \in Acronyms : structures[a].id = id
        IN  [name |-> structures[a].name, acronym |-> structures[a].acronym]]

\* The info create_label_mapping picks for one id of the final mask.
label_info(region_id, new_id_to_old_id) ==
    IF region_id \in DOMAIN atlas_id_to_info
    THEN atlas_id_to_info[region_id]
    ELSE IF region_id \in DOMAIN new_id_to_old_id
    THEN LET old_id == new_id_to_old_id[region_id]
         IN  IF old_id \in DOMAIN atlas_id_to_info
             THEN atlas_id_to_info[old_id]
             ELSE [name |-> "Remapped_" \o ToString(old_id),
                   acronym |-> "Remapped_" \o ToString(old_id)]
    ELSE [name |-> "Unknown_" \o ToString(region_id),
          acronym |-> "Unknown_" \o ToString(region_id)]

RECURSIVE label_rows(_, _)
label_rows(final_ids, new_id_to_old_id) ==
    IF final_ids = <<>> THEN <<>>
    ELSE LET region_id == Head(final_ids)
             rest == label_rows(Tail(final_ids), new_id_to_old_id)
         IN  IF region_id = 0 THEN rest
             ELSE LET info == label_info(region_id, new_id_to_old_id)
                  IN  <<[region_id |-> region_id,
                         region_name |-> info.name,
                         region_acronym |-> info.acronym]>> \o rest

create_label_mapping(m, new_id_to_old_id) ==
    label_rows(unique(m), new_id_to_old_id)

(***************************** inputs **************************************)
\* The values a voxel of an input mask can hold: background and region ids.
MaskIds == {0} \cup AtlasIds

Masks(n) == [1..n -> MaskIds]

\* The region_acronyms lists of at most n entries.
RegionLists(n) ==
    UNION {[1..k -> Acronyms \cup {UnknownAcronym}] : k \in 0..n}

NoCall == [op |-> "none"]

(***************************************************************************)
(* SpecOps: one call of one Region Merger function on an arbitrary mask,   *)
(* and a second call of flatten_regions on the mask the first returned.    *)
(***************************************************************************)
InitOps ==
    /\ tree \in Trees
    /\ mask0 \in Masks(NVox)
    /\ mask = mask0
    /\ call = NoCall
    /\ work = mask0
    /\ ret = NoReturn
    /\ raised = "none"
    /\ pc = "call"

Finish(r, c, next) ==
    /\ mask' = r.mask
    /\ work' = r.work
    /\ ret' = r.ret
    /\ raised' = r.raised
    /\ call' = c
    /\ pc' = IF r.raised = "none" THEN next ELSE "raised"
    /\ UNCHANGED <<tree, mask0>>

CallFlattenRegions ==
    /\ pc = "call"
    /\ \E regs \in RegionLists(MaxRegions) :
          Finish(flatten_regions(mask, tree, regs),
                 [op |-> "flatten_regions", regions |-> regs], "returned")

CallFlattenDescendantsOfLevel ==
    /\ pc = "call"
    /\ \E regs \in RegionLists(MaxRegions), lvl \in 0..MaxLevel :
          Finish(flatten_descendants_of_level(mask, tree, regs, lvl),
                 [op |-> "flatten_descendants_of_level", regions |-> regs,
                  level |-> lvl], "returned")

CallExcludeRegions ==
    /\ pc = "call"
    /\ \E regs \in RegionLists(MaxRegions) :
          Finish(exclude_regions(mask, regs),
                 [op |-> "exclude_regions", regions |-> regs], "returned")

\* flatten_regions(flatten_regions(mask, regions), regions): the returned mask
\* is passed in again with the same list; the first result stays in work.
CallFlattenRegionsAgain ==
    /\ pc = "returned"
    /\ call.op = "flatten_regions"
    /\ LET r == flatten_regions(ret.mask, tree, call.regions)
       IN  /\ ret' = r.ret
           /\ raised' = r.raised
           /\ work' = ret.mask
           /\ pc' = "reapplied"
    /\ UNCHANGED <<tree, mask0, mask, call>>

NextOps ==
    \/ CallFlattenRegions
    \/ CallFlattenDescendantsOfLevel
    \/ CallExcludeRegions
    \/ CallFlattenRegionsAgain

SpecOps == InitOps /\ [][NextOps]_vars


(***************************************************************************)
(* SpecMerge: STEP 3 of the driver, the three functions in their fixed     *)
(* order, on the mask that holds every region id, with any three lists.    *)
(***************************************************************************)
MaxKeep == 1       \* longest flatten-to-depth list of STEP 3
MaxExclude == 1    \* longest exclude list of STEP 3

\* The mask in which every value a voxel can hold occurs once.
FullMask == sorted(MaskIds)

InitMerge ==
    /\ tree \in Trees
    /\ mask0 = FullMask
    /\ mask = mask0
    /\ call = NoCall
    /\ work = mask0
    /\ ret = NoReturn
    /\ raised = "none"
    /\ pc = "flatten"

\* simplified_mask = flatten_regions(mask, atlas, regions_to_flatten)
Step3FlattenRegions ==
    /\ pc = "flatten"
    /\ \E regs \in RegionLists(MaxRegions) :
          Finish(flatten_regions(mask, tree, regs),
                 [op |-> "step3", regions_to_flatten |-> regs], "level")

\* simplified_mask = flatten_descendants_of_level(simplified_mask, atlas, ...)
Step3FlattenDescendantsOfLevel ==
    /\ pc = "level"
    /\ \E regs \in RegionLists(MaxKeep), lvl \in 0..MaxLevel :
          LET r == flatten_descendants_of_level(ret.mask, tree, regs, lvl)
          IN  /\ ret' = r.ret
              /\ work' = r.work
              /\ raised' = r.raised
              /\ call' = [op |-> "step3",
                          regions_to_flatten |-> call.regions_to_flatten,
                          regions_to_flatten_on_level |-> regs,
                          level |-> lvl]
              /\ pc' = IF r.raised = "none" THEN "exclude" ELSE "raised"
    /\ UNCHANGED <<tree, mask0, mask>>

\* simplified_mask = exclude_regions(simplified_mask, atlas, regions_to_exclude)
Step3ExcludeRegions ==
    /\ pc = "exclude"
    /\ \E regs \in RegionLists(MaxExclude) :
          LET r == exclude_regions(ret.mask, regs)
          IN  /\ ret' = r.ret
              /\ work' = r.work
              /\ raised' = r.raised
              /\ call' = [op |-> "step3",
                          regions_to_flatten |-> call.regions_to_flatten,
                          regions_to_flatten_on_level |->
                              call.regions_to_flatten_on_level,
                          level |-> call.level,
                          regions_to_exclude |-> regs]
              /\ pc' = IF r.raised = "none" THEN "merged" ELSE "raised"
    /\ UNCHANGED <<tree, mask0, mask>>

NextMerge ==
    \/ Step3FlattenRegions
    \/ Step3FlattenDescendantsOfLevel
    \/ Step3ExcludeRegions

SpecMerge == InitMerge /\ [][NextMerge]_vars

(***************************** the hierarchy, as a relation ****************)
RECURSIVE nth_ancestor(_, _, _)
\* The region n parent links above a, or "none".
nth_ancestor(t, a, n) ==
    IF a = "none" \/ n = 0 THEN a ELSE nth_ancestor(t, t[a], n - 1)

\* The regions strictly above a.
ProperAncestors(t, a) ==
    {nth_ancestor(t, a, n) : n \in 1..Len(RegionOrder)} \ {"none"}

\* The regions strictly below a.
Descendants(t, a) == {d \in Acronyms : a \in ProperAncestors(t, d)}

IdsOf(S) == {structures[a].id : a \in S}

(***************************** C8 ******************************************)
HasUnknown(regs) == \E i \in DOMAIN regs : regs[i] \notin DOMAIN structures

\* C8: when a list passed to flatten_regions, flatten_descendants_of_level or
\* exclude_regions holds an acronym without a hierarchy entry, the call ends
\* with an error, returns no mask, and the mask passed in is unchanged.
C8_UnknownAcronymAborts ==
    (pc # "call" /\ HasUnknown(call.regions)) =>
        /\ raised # "none"
        /\ ret = NoReturn
        /\ mask = mask0

\* An unknown acronym ended a call after earlier acronyms of the list had
\* already rewritten voxels of the working copy.
C8_Witness ==
    /\ pc = "raised"
    /\ raised = "KeyError"
    /\ HasUnknown(call.regions)
    /\ work # mask0
    /\ mask = mask0

(***************************** C9 ******************************************)
\* C9: flatten_regions applied to its own result with the same list returns
\* that result again, and after one application no voxel carries the id of a
\* descendant of a listed region.
C9_FlattenIdempotent ==
    (pc \in {"returned", "reapplied"} /\ call.op = "flatten_regions") =>
        LET once == IF pc = "returned" THEN ret.mask ELSE work
        IN  /\ \A i \in DOMAIN call.regions, v \in DOMAIN once :
                  once[v] \notin IdsOf(Descendants(tree, call.regions[i]))
            /\ pc = "reapplied" => (ret.returned /\ ret.mask = work)

\* flatten_regions was applied twice and its first application rewrote voxels
\* of two listed regions, one of them below the other.
C9_Witness ==
    /\ pc = "reapplied"
    /\ work # mask0
    /\ ret.mask = work
    /\ \E i, j \in DOMAIN call.regions :
          call.regions[i] \in Descendants(tree, call.regions[j])

(***************************** C5 ******************************************)
\* The regions that flatten-to-depth keeps: those level links below a listed one.
KeptAtLevel(t, regs, level) ==
    {k \in Acronyms : nth_ancestor(t, k, level) \in Range(regs)}

\* Every voxel that held the id of R or of a descendant of R is 0 in the output.
ZeroedSubtree(R) ==
    \A v \in DOMAIN mask0 :
        mask0[v] \in IdsOf({R} \cup Descendants(tree, R)) => ret.mask[v] = 0

\* C5 as stated: for every region R in both the flatten-subtree list and the
\* exclude list, the voxels of R and of its descendants are 0 in the output of
\* the Region Merger.
C5_AsStated ==
    pc = "merged" =>
        \A R \in Range(call.regions_to_flatten) \cap Range(call.regions_to_exclude) :
            ZeroedSubtree(R)

\* C5 amended: the same, for every such R none of whose proper ancestors is in
\* the flatten-subtree list or is a region kept by flatten-to-depth.
C5_ExcludeAfterFlatten ==
    pc = "merged" =>
        \A R \in Range(call.regions_to_flatten) \cap Range(call.regions_to_exclude) :
            (ProperAncestors(tree, R) \cap
                (Range(call.regions_to_flatten) \cup
                 KeptAtLevel(tree, call.regions_to_flatten_on_level, call.level))
             = {})
            => ZeroedSubtree(R)

\* A region with descendants was flattened, a flatten-to-depth rule was
\* applied, the region was excluded, and the voxels of its subtree are 0.
C5_Witness ==
    /\ pc = "merged"
    /\ call.regions_to_flatten_on_level # <<>>
    /\ \E R \in Range(call.regions_to_flatten) \cap Range(call.regions_to_exclude) :
          /\ Descendants(tree, R) # {}
          /\ ProperAncestors(tree, R) \cap
                (Range(call.regions_to_flatten) \cup
                 KeptAtLevel(tree, call.regions_to_flatten_on_level, call.level))
             = {}
          /\ ZeroedSubtree(R)

(***************************************************************************)
(* SpecFragments: one call of remove_small_fragments on a grid.            *)
(***************************************************************************)
MaxMinSize == 3    \* largest min_size

\* The values of a voxel of the grid: background, the id of a region of the
\* atlas and an id the atlas does not know.
FragmentMaskIds == {0, 2, 4}

\* generate_binary_structure with connectivity 1 (faces) and 2 (diagonals too).
Structures == {1, 2}

\* A hierarchy for the stages that do not walk it: every region below root.
RootTree == [a \in Acronyms |-> IF a = "root" THEN "none" ELSE "root"]

InitFragments ==
    /\ tree = RootTree
    /\ mask0 \in [GridVoxels -> FragmentMaskIds]
    /\ mask = mask0
    /\ call = NoCall
    /\ work = mask0
    /\ ret = NoReturn
    /\ raised = "none"
    /\ pc = "filter"

RemoveSmallFragments ==
    /\ pc = "filter"
    /\ \E min_size \in 0..MaxMinSize, structure \in Structures :
          Finish(remove_small_fragments(mask, min_size, structure),
                 [op |-> "remove_small_fragments", min_size |-> min_size,
                  structure |-> structure], "filtered")

NextFragments == RemoveSmallFragments

SpecFragments == InitFragments /\ [][NextFragments]_vars

(***************************************************************************)
(* SpecRemap: STEP 5 and STEP 8 of the driver, remap_large_values on an    *)
(* arbitrary mask and then create_label_mapping on the mask it returned.   *)
(***************************************************************************)
NVoxRemap == 3     \* voxels of a mask given to the ID Remapper
MaxId == 5         \* largest value of a voxel of that mask
MaxV == 3          \* largest max_value

InitRemap ==
    /\ tree = RootTree
    /\ mask0 \in [1..NVoxRemap -> 0..MaxId]
    /\ mask = mask0
    /\ call = NoCall
    /\ work = mask0
    /\ ret = NoReturn
    /\ raised = "none"
    /\ pc = "remap"

\* adjusted_mask, id_remap, new_id_to_old_id = remap_large_values(cleaned_mask)
RemapLargeValues ==
    /\ pc = "remap"
    /\ \E max_value \in 0..MaxV :
          Finish(remap_large_values(mask, max_value),
                 [op |-> "remap_large_values", max_value |-> max_value],
                 "remapped")

\* df_labels = create_label_mapping(adjusted_mask, atlas, new_id_to_old_id)
CreateLabelMapping ==
    /\ pc = "remapped"
    /\ ret' = [returned |-> TRUE, mask |-> ret.mask,
               id_remap |-> ret.id_remap,
               new_id_to_old_id |-> ret.new_id_to_old_id,
               df_labels |-> create_label_mapping(ret.mask, ret.new_id_to_old_id)]
    /\ pc' = "labelled"
    /\ UNCHANGED <<tree, mask0, mask, call, work, raised>>

NextRemap ==
    \/ RemapLargeValues
    \/ CreateLabelMapping

SpecRemap == InitRemap /\ [][NextRemap]_vars

(***************************** C6, C7 **************************************)
VoxelsOf(id) == {v \in DOMAIN mask0 : mask0[v] = id}

ComponentsOf(id) ==
    {component(VoxelsOf(id), v, call.structure) : v \in VoxelsOf(id)}

RecordsOf(id) ==
    {k \in DOMAIN ret.fragment_info : ret.fragment_info[k].region_id = id}

\* C6: every connected component of every nonzero id has exactly one Fragment
\* Record; a component of fewer than min_size voxels is zeroed and recorded as
\* removed, any other keeps its voxels and is recorded as kept.
C6_SmallFragmentsRemoved ==
    pc = "filtered" =>
        \A id \in Range(mask0) \ {0} :
            /\ Cardinality(RecordsOf(id)) = Cardinality(ComponentsOf(id))
            /\ \A c \in ComponentsOf(id) :
                  LET idx == label(VoxelsOf(id), call.structure)[first_voxel(c)]
                      recs == {k \in RecordsOf(id) :
                                  ret.fragment_info[k].fragment_index = idx}
                      small == Cardinality(c) < call.min_size
                  IN  /\ Cardinality(recs) = 1
                      /\ \A k \in recs :
                            /\ ret.fragment_info[k].fragment_size_voxels
                                   = Cardinality(c)
                            /\ ret.fragment_info[k].removed = small
                      /\ \A v \in c :
                            ret.mask[v] = IF small THEN 0 ELSE mask0[v]

\* One id has a component of exactly min_size voxels, kept, and a smaller
\* one, removed.
C6_Witness ==
    /\ pc = "filtered"
    /\ \E k1, k2 \in DOMAIN ret.fragment_info :
          /\ ret.fragment_info[k1].region_id = ret.fragment_info[k2].region_id
          /\ ret.fragment_info[k1].removed
          /\ ~ret.fragment_info[k2].removed
          /\ ret.fragment_info[k2].fragment_size_voxels = call.min_size
          /\ \E v \in DOMAIN mask0 :
                mask0[v] = ret.fragment_info[k1].region_id /\ ret.mask[v] = 0

RECURSIVE SumSizes(_)
SumSizes(K) ==
    IF K = {} THEN 0
    ELSE LET k == CHOOSE k \in K : TRUE
         IN  ret.fragment_info[k].fragment_size_voxels + SumSizes(K \ {k})

\* C7: the voxel counts of the Fragment Records of an id add up to the number
\* of voxels that carried the id before filtering, and no two records share
\* (region id, component index).
C7_FragmentCompleteness ==
    pc = "filtered" =>
        /\ \A id \in Range(mask0) \ {0} :
              SumSizes(RecordsOf(id)) = Cardinality(VoxelsOf(id))
        /\ \A k1, k2 \in DOMAIN ret.fragment_info :
              (/\ ret.fragment_info[k1].region_id = ret.fragment_info[k2].region_id
               /\ ret.fragment_info[k1].fragment_index
                      = ret.fragment_info[k2].fragment_index)
              => k1 = k2

\* Two ids have fragments, and one of them has a kept and a removed fragment.
C7_Witness ==
    /\ pc = "filtered"
    /\ Cardinality(Range(mask0) \ {0}) = 2
    /\ \E id \in Range(mask0) \ {0} :
          /\ Cardinality(RecordsOf(id)) >= 2
          /\ \E k1, k2 \in RecordsOf(id) :
                ret.fragment_info[k1].removed /\ ~ret.fragment_info[k2].removed

(***************************** C2, C3, C4, C10, C1 *************************)
Completed == pc \in {"remapped", "labelled"}

\* C2: after remap_large_values completes, every voxel lies in [0, max_value]
\* and every voxel that was already in range keeps its value.
C2_RemapRange ==
    Completed =>
        \A v \in DOMAIN mask0 :
            /\ ret.mask[v] \in 0..call.max_value
            /\ mask[v] = ret.mask[v]
            /\ mask0[v] <= call.max_value => ret.mask[v] = mask0[v]

\* An over-range id was remapped in a mask that also holds a nonzero in-range id.
C2_Witness ==
    /\ pc = "remapped"
    /\ \E v, w \in DOMAIN mask0 :
          /\ mask0[v] > call.max_value
          /\ mask0[w] \in 1..call.max_value
          /\ ret.mask[v] # mask0[v]

\* C3: the old->new table is injective, no new id is an id the mask held
\* before, and two voxels are equal after remapping iff they were before.
C3_RemapInjective ==
    Completed =>
        /\ \A a, b \in DOMAIN ret.id_remap :
              ret.id_remap[a] = ret.id_remap[b] => a = b
        /\ \A a \in DOMAIN ret.id_remap : ret.id_remap[a] \notin Range(mask0)
        /\ \A v, w \in DOMAIN mask0 :
              (ret.mask[v] = ret.mask[w]) <=> (mask0[v] = mask0[w])

\* Two over-range ids were remapped in a mask that holds a nonzero in-range id.
C3_Witness ==
    /\ pc = "remapped"
    /\ Cardinality(DOMAIN ret.id_remap) = 2
    /\ \E w \in DOMAIN mask0 : mask0[w] \in 1..call.max_value

OverRange == {x \in Range(mask0) : x > call.max_value}

FreeInRange == {i \in 1..call.max_value : i \notin Range(mask0)}

\* C4: remap_large_values raises RuntimeError iff the over-range ids of the
\* mask outnumber the integers of [1, max_value] absent from it; otherwise it
\* completes with a new id for every over-range id.
C4_ExhaustionIff ==
    pc # "remap" =>
        /\ raised = "RuntimeError"
               <=> Cardinality(OverRange) > Cardinality(FreeInRange)
        /\ raised = "none" => DOMAIN ret.id_remap = OverRange

\* The call raised although a candidate was free: over-range ids outnumbered
\* the candidates.
C4_Witness ==
    /\ pc = "raised"
    /\ raised = "RuntimeError"
    /\ FreeInRange # {}
    /\ Cardinality(OverRange) > Cardinality(FreeInRange)

\* C10 as stated: when remap_large_values raises, the mask it was given is as
\* it was before the call.
C10_AllOrNothing ==
    raised = "RuntimeError" => mask = mask0

\* C1 as stated: the Label Mapping Table row of every id the remapper assigned
\* carries the name and acronym of the region whose id is the original id.
C1_RemappedLabels ==
    pc = "labelled" =>
        \A n \in DOMAIN ret.new_id_to_old_id :
            ret.new_id_to_old_id[n] \in AtlasIds =>
                \E k \in DOMAIN ret.df_labels :
                    /\ ret.df_labels[k].region_id = n
                    /\ \E a \in Acronyms :
                          /\ structures[a].id = ret.new_id_to_old_id[n]
                          /\ ret.df_labels[k].region_name = structures[a].name
                          /\ ret.df_labels[k].region_acronym = structures[a].acronym

====
